---------------------------- MODULE Spec2Model ----------------------------
(***************************************************************************)
(* A model of two parts of i3status-rust:                                  *)
(*   - widgets/button.rs: ButtonWidget, a themed text fragment that keeps  *)
(*     a serialized cache of its wire record;                              *)
(*   - blocks/apt.rs: the Apt block, which lists pending package updates,  *)
(*     counts them, renders a count-dependent template and sets the        *)
(*     severity State of its output widget.                                *)
(* Strings that are concatenated or measured are sequences of one-char     *)
(* strings; Option<T> is a sequence of length 0 (None) or 1 (Some).        *)
(***************************************************************************)
EXTENDS Integers, Sequences, FiniteSets

VARIABLES
    \* ---- widgets/button.rs ----
    new_id,         \* the id argument ButtonWidget::new was called with
    button,         \* the ButtonWidget: id, content, icon, state, spacing,
                    \* rendered, cached_output
    mutated,        \* TRUE once a with_* / set_* operation has returned
    rendered_out,   \* Option: the String the last to_string call returned and
                    \* whether it ran the unwrap_or_else closure
    \* ---- blocks/apt.rs ----
    cfg,            \* the Apt block's configuration fields
    output,         \* Apt::output, the block's output widget
    pc,             \* position of the thread inside Apt::update
    caller,         \* who called Apt::update: "none", "sched" or "click"
    click,          \* Option: the click event being handled / last handled
    updates_list,   \* local of update: the lines of `apt list --upgradable`
    idx,            \* next line the phased filter looks at
    kept,           \* elements collected so far by the phased filter_map
    count,          \* local of update: count / cum_count
    selected,       \* which template the match on cum_count rendered
    result,         \* what update returned: "none", "ok" or "err"
    saved,          \* the output widget as it was when update was entered
    cycles          \* update cycles entered by the current click handler

btnVars == <<new_id, button, mutated, rendered_out>>
aptVars == <<cfg, output, pc, caller, click, updates_list, idx, kept, count,
             selected, result, saved, cycles>>
vars == <<new_id, button, mutated, rendered_out, cfg, output, pc, caller,
          click, updates_list, idx, kept, count, selected, result, saved,
          cycles>>

None == << >>
Some(x) == << x >>

(***************************************************************************)
(* Bounds and input sets                                                   *)
(***************************************************************************)
MaxLines == 2

Ids == {0, 1}
States == {"Idle", "Info", "Warning", "Critical"}
Spacings == {"Normal", "Inline", "Hidden"}
IconNames == {"update", "no_such_icon"}
Contents == {<< >>, <<"a">>, <<"a", "b">>}

(***************************************************************************)
(* Collaborators of the widget: theme, icon table, JSON serialization      *)
(***************************************************************************)
\* State::theme_keys: the (background, foreground) pair of a State.
ThemeKeys(state) ==
    CASE state = "Idle"     -> [bg |-> "idle_bg",     fg |-> "idle_fg"]
      [] state = "Info"     -> [bg |-> "info_bg",     fg |-> "info_fg"]
      [] state = "Warning"  -> [bg |-> "warning_bg",  fg |-> "warning_fg"]
      [] state = "Critical" -> [bg |-> "critical_bg", fg |-> "critical_fg"]

\* SharedConfig::get_icon: Some(icon text) for a known name, else None.
GetIcon(name) == IF name = "update" THEN Some(<<"U", " ">>) ELSE None

\* serde_json's Value::to_string on an object: the members in key order.
KeyOrder == <<"background", "color", "full_text", "markup", "name",
              "separator", "separator_block_width">>

Serialize(rec) ==
    LET present == SelectSeq(KeyOrder, LAMBDA k : k \in DOMAIN rec)
    IN  [i \in 1..Len(present) |-> <<present[i], rec[present[i]]>>]

(***************************************************************************)
(* widgets/button.rs                                                       *)
(***************************************************************************)
New(id) ==
    [id            |-> id,
     content       |-> None,
     icon          |-> None,
     state         |-> "Idle",
     spacing       |-> "Normal",
     rendered      |-> [full_text             |-> << >>,
                        separator             |-> FALSE,
                        separator_block_width |-> 0,
                        background            |-> "#000000",
                        color                 |-> "#000000",
                        markup                |-> "pango"],
     cached_output |-> None]

\* faulty variant: the leading space is dropped only when spacing is Hidden
FullTextLeadHiddenOnly(w) ==
    (IF w.icon # None THEN w.icon[1]
     ELSE IF w.spacing = "Hidden" THEN << >> ELSE <<" ">>)
    \o (IF w.content # None THEN w.content[1] ELSE << >>)
    \o (IF w.spacing = "Hidden" THEN << >> ELSE <<" ">>)

\* the format!("{}{}{}", ...) of update
FullText(w) ==
    (IF w.icon # None THEN w.icon[1]
     ELSE IF w.spacing = "Normal" THEN <<" ">> ELSE << >>)
    \o (IF w.content # None THEN w.content[1] ELSE << >>)
    \o (IF w.spacing = "Hidden" THEN << >> ELSE <<" ">>)

\* faulty variant: the record is rebuilt without the "name" member
UpdateNoName(w) ==
    LET keys == ThemeKeys(w.state)
        rendered == [full_text             |-> FullText(w),
                     separator             |-> FALSE,
                     separator_block_width |-> 0,
                     background            |-> keys.bg,
                     color                 |-> keys.fg,
                     markup                |-> "pango"]
    IN  [w EXCEPT !.rendered = rendered,
                  !.cached_output = Some(Serialize(rendered))]

Update(w) ==
    LET keys == ThemeKeys(w.state)
        rendered == [full_text             |-> FullText(w),
                     separator             |-> FALSE,
                     name                  |-> w.id,
                     separator_block_width |-> 0,
                     background            |-> keys.bg,
                     color                 |-> keys.fg,
                     markup                |-> "pango"]
    IN  [w EXCEPT !.rendered = rendered,
                  !.cached_output = Some(Serialize(rendered))]

with_icon(w, name) == Update([w EXCEPT !.icon = GetIcon(name)])
with_content(w, content) == Update([w EXCEPT !.content = content])
with_text(w, content) == Update([w EXCEPT !.content = Some(content)])
with_state(w, state) == Update([w EXCEPT !.state = state])
with_spacing(w, spacing) == Update([w EXCEPT !.spacing = spacing])
set_text(w, content) == Update([w EXCEPT !.content = Some(content)])
set_icon(w, name) == Update([w EXCEPT !.icon = GetIcon(name)])

\* faulty variant: the setter stores the field and forgets to call update
set_state_no_update(w, state) == [w EXCEPT !.state = state]

set_state(w, state) == Update([w EXCEPT !.state = state])
set_spacing(w, spacing) == Update([w EXCEPT !.spacing = spacing])

\* faulty variant: recompute-on-read, the serialization is built by every call
to_string_recompute(w) == [text |-> Serialize(w.rendered), fallback |-> TRUE]

\* to_string: the cache, or (closure of unwrap_or_else) a fresh serialization
to_string(w) ==
    IF w.cached_output # None
    THEN [text |-> w.cached_output[1], fallback |-> FALSE]
    ELSE [text |-> Serialize(w.rendered), fallback |-> TRUE]

get_rendered(w) == w.rendered

Mutate(w) ==
    /\ button' = w
    /\ mutated' = TRUE
    /\ rendered_out' = None
    /\ UNCHANGED <<new_id, aptVars>>

WithIcon == \E name \in IconNames : Mutate(with_icon(button, name))
WithContent ==
    \E c \in {None} \cup {Some(t) : t \in Contents} :
        Mutate(with_content(button, c))
WithText == \E t \in Contents : Mutate(with_text(button, t))
WithState == \E s \in States : Mutate(with_state(button, s))
WithSpacing == \E s \in Spacings : Mutate(with_spacing(button, s))
SetText == \E t \in Contents : Mutate(set_text(button, t))
SetIcon == \E name \in IconNames : Mutate(set_icon(button, name))
SetState == \E s \in States : Mutate(set_state(button, s))
SetSpacing == \E s \in Spacings : Mutate(set_spacing(button, s))

ToString ==
    /\ rendered_out' = Some(to_string(button))
    /\ UNCHANGED <<new_id, button, mutated, aptVars>>


(***************************************************************************)
(* formatting: FormatTemplate and Value                                    *)
(***************************************************************************)
Lit(chars) == [kind |-> "lit", text |-> chars, key |-> "", width |-> 0]
Var(key, width) == [kind |-> "var", text |-> << >>, key |-> key, width |-> width]

DigitChars == <<"0", "1", "2", "3", "4", "5", "6", "7", "8", "9">>

RECURSIVE Digits(_)
Digits(n) ==
    IF n < 10 THEN <<DigitChars[n + 1]>>
    ELSE Digits(n \div 10) \o <<DigitChars[(n % 10) + 1]>>

RECURSIVE PadLeft(_, _)
PadLeft(chars, width) ==
    IF Len(chars) >= width THEN chars ELSE PadLeft(<<" ">> \o chars, width)

\* Value::from_integer(n) formatted with a minimum-width hint
FormatValue(n, width) == PadLeft(Digits(n), width)

\* FormatTemplate::render: Err when a placeholder's key is not bound
RECURSIVE Render(_, _)
Render(template, bindings) ==
    IF template = << >> THEN [ok |-> TRUE, text |-> << >>]
    ELSE LET node == Head(template)
             rest == Render(Tail(template), bindings)
         IN  IF node.kind = "lit"
             THEN [ok |-> rest.ok, text |-> node.text \o rest.text]
             ELSE IF node.key \notin DOMAIN bindings
                  THEN [ok |-> FALSE, text |-> << >>]
                  ELSE [ok |-> rest.ok,
                        text |-> FormatValue(bindings[node.key], node.width)
                                 \o rest.text]

\* map!("count" => Value::from_integer(count as i64))
FormattingMap(n) == [k \in {"count"} |-> n]

TplDefault  == << Var("count", 1) >>
TplUpToDate == << Lit(<<"o", "k">>) >>
TplSingular == << Var("count", 1), Lit(<<" ", "u">>) >>
TplMany     == << Var("count", 2), Lit(<<" ", "u", "s">>) >>
TplUnbound  == << Lit(<<"n", "=">>), Var("total", 1) >>

Formats(many, one, zero) ==
    [format |-> many, format_singular |-> one, format_up_to_date |-> zero]

FormatConfigs ==
    { Formats(TplDefault, TplDefault, TplDefault),
      Formats(TplMany, TplSingular, TplUpToDate),
      Formats(TplUnbound, TplSingular, TplUpToDate),
      Formats(TplMany, TplUnbound, TplUpToDate),
      Formats(TplMany, TplSingular, TplUnbound) }

(***************************************************************************)
(* The upgrade listing.  A line is what the code can tell about it:        *)
(*   upgradable: it contains "[upgradable";                                *)
(*   slash:      PACKAGE_NAME_REGEX matches it (it contains a slash);      *)
(*   words:      the configured patterns that match it;                    *)
(*   phased:     the percentage PHASED_REGEX captures from the package's   *)
(*               `apt-cache policy` output, None when it does not match.   *)
(***************************************************************************)
Line(upgradable, slash, words, phased) ==
    [upgradable |-> upgradable, slash |-> slash, words |-> words,
     phased |-> phased]

LineSet ==
    { Line(FALSE, FALSE, {}, None),                       \* "Listing..."
      Line(TRUE, TRUE, {"security"}, None),
      Line(TRUE, TRUE, {"linux"}, Some(45)),
      Line(TRUE, TRUE, {"linux", "security"}, Some(100)),
      Line(FALSE, TRUE, {"security"}, None),
      Line(TRUE, FALSE, {}, None) }

Listings == UNION { [1..n -> LineSet] : n \in 0..MaxLines }

\* Regex::is_match
IsMatch(regex, line) == regex \in line.words

Configs ==
    { [ignore_waiting_phased_updates |-> ig,
       warning_updates_regex |-> w,
       critical_updates_regex |-> c,
       formats |-> f] :
      ig \in BOOLEAN, w \in {None, Some("linux")},
      c \in {None, Some("security")}, f \in FormatConfigs }

DefaultConfig ==
    [ignore_waiting_phased_updates |-> FALSE,
     warning_updates_regex |-> None,
     critical_updates_regex |-> None,
     formats |-> Formats(TplDefault, TplDefault, TplDefault)]

Buttons == {"Left", "Right"}

(***************************************************************************)
(* widgets/text.rs: the output widget of the block                         *)
(***************************************************************************)
TextUpdate(w) ==
    LET keys == ThemeKeys(w.state)
    IN  [w EXCEPT !.cached_output =
            Some(Serialize(
                [full_text  |-> (IF w.icon # None THEN w.icon[1] ELSE <<" ">>)
                                \o (IF w.content # None THEN w.content[1]
                                    ELSE << >>)
                                \o <<" ">>,
                 name       |-> w.id,
                 background |-> keys.bg,
                 color      |-> keys.fg]))]

TextNew(id) ==
    [id |-> id, content |-> None, icon |-> None, state |-> "Idle",
     cached_output |-> None]

TextWithIcon(w, name) == TextUpdate([w EXCEPT !.icon = GetIcon(name)])
TextSetTexts(w, text) == TextUpdate([w EXCEPT !.content = Some(text)])
TextSetState(w, state) == TextUpdate([w EXCEPT !.state = state])

(***************************************************************************)
(* blocks/apt.rs: helpers                                                  *)
(***************************************************************************)
has_warning_update(updates, regex) ==
    Cardinality({i \in DOMAIN updates : IsMatch(regex, updates[i])}) > 0

has_critical_update(updates, regex) ==
    Cardinality({i \in DOMAIN updates : IsMatch(regex, updates[i])}) > 0

get_update_count(updates) ==
    Cardinality({i \in DOMAIN updates : updates[i].upgradable})

Ok(v) == [err |-> FALSE, val |-> v]
Err == [err |-> TRUE, val |-> FALSE]

\* cmd_ok: whether `apt-cache policy` ran and its output was valid UTF-8
is_waiting_phased_update(package_line, cmd_ok) ==
    IF ~package_line.slash THEN Err
    ELSE IF ~cmd_ok THEN Err
    ELSE IF package_line.phased # None
         THEN Ok(package_line.phased[1] # 100)
         ELSE Ok(FALSE)

\* the filter_map closure of get_update_count_ignore_waiting_phased:
\* Ok(true) => Some(Ok(true)), Ok(false) => None
filter_map_keeps(r) == r.val

\* faulty variant: the one-update arm renders the plural template
select_format_no_singular(cum_count) ==
    IF cum_count = 0 THEN "format_up_to_date" ELSE "format"

\* match cum_count { 0 => format_up_to_date, 1 => format_singular, _ => format }
select_format(cum_count) ==
    IF cum_count = 0 THEN "format_up_to_date"
    ELSE IF cum_count = 1 THEN "format_singular"
    ELSE "format"

\* faulty variant: warning is tested before critical
select_state_warning_first(cum_count, warning, critical) ==
    IF cum_count = 0 THEN "Idle"
    ELSE IF warning THEN "Warning"
    ELSE IF critical THEN "Critical"
    ELSE "Info"

\* match cum_count { 0 => Idle, _ => Critical / Warning / Info }
select_state(cum_count, warning, critical) ==
    IF cum_count = 0 THEN "Idle"
    ELSE IF critical THEN "Critical"
    ELSE IF warning THEN "Warning"
    ELSE "Info"

(***************************************************************************)
(* blocks/apt.rs: Apt::update, split where it waits for an external        *)
(* command, and Apt::click                                                 *)
(***************************************************************************)
Pending == click # None /\ click[1].ret = "pending"

\* entry of update: nothing has run yet, the listing commands come next
EnterUpdate(who) ==
    /\ caller' = who
    /\ pc' = "list"
    /\ saved' = output
    /\ result' = "none"
    /\ UNCHANGED <<cfg, output, updates_list, idx, kept, count, selected>>

\* update returns to its caller: its locals go out of scope
LeaveUpdate ==
    /\ pc' = "idle"
    /\ caller' = "none"
    /\ updates_list' = << >>
    /\ idx' = 1
    /\ kept' = 0
    /\ count' = 0
    /\ selected' = "none"
    /\ result' = "none"
    /\ saved' = output
    /\ UNCHANGED <<cfg, output>>

\* the scheduler runs one update cycle of the block
ScheduledUpdate ==
    /\ pc = "idle" /\ caller = "none" /\ ~Pending
    /\ EnterUpdate("sched")
    /\ click' = None
    /\ UNCHANGED <<cycles, btnVars>>

SchedReturn ==
    /\ pc = "ret" /\ caller = "sched"
    /\ LeaveUpdate
    /\ UNCHANGED <<click, cycles, btnVars>>

\* the event router calls click(event)
ClickEnter ==
    /\ pc = "idle" /\ caller = "none" /\ ~Pending
    /\ \E b \in Buttons : click' = Some([button |-> b, ret |-> "pending"])
    /\ cycles' = 0
    /\ UNCHANGED <<cfg, output, pc, caller, updates_list, idx, kept, count,
                   selected, result, saved, btnVars>>

\* faulty variant: a Left click hands the update over and returns at once
ClickDispatchDetached ==
    /\ Pending /\ pc = "idle" /\ caller = "none"
    /\ IF click[1].button = "Left"
       THEN /\ EnterUpdate("click")
            /\ cycles' = cycles + 1
            /\ click' = Some([click[1] EXCEPT !.ret = "ok"])
       ELSE /\ click' = Some([click[1] EXCEPT !.ret = "ok"])
            /\ UNCHANGED <<cfg, output, pc, caller, updates_list, idx, kept,
                           count, selected, result, saved, cycles>>
    /\ UNCHANGED btnVars

\* body of click: Left calls self.update(), any other button returns Ok(())
ClickDispatch ==
    /\ Pending /\ pc = "idle" /\ caller = "none"
    /\ IF click[1].button = "Left"
       THEN /\ EnterUpdate("click")
            /\ cycles' = cycles + 1
            /\ UNCHANGED click
       ELSE /\ click' = Some([click[1] EXCEPT !.ret = "ok"])
            /\ UNCHANGED <<cfg, output, pc, caller, updates_list, idx, kept,
                           count, selected, result, saved, cycles>>
    /\ UNCHANGED btnVars

\* faulty variant: the result of update is dropped and click returns Ok(())
ClickReturnSwallow ==
    /\ pc = "ret" /\ caller = "click"
    /\ click' = Some([click[1] EXCEPT !.ret = "ok"])
    /\ LeaveUpdate
    /\ UNCHANGED <<cycles, btnVars>>

\* self.update()? has returned: `?` passes the error on, else Ok(())
ClickReturn ==
    /\ pc = "ret" /\ caller = "click"
    /\ click' = Some([click[1] EXCEPT
                        !.ret = IF result = "err" THEN "err" ELSE "ok"])
    /\ LeaveUpdate
    /\ UNCHANGED <<cycles, btnVars>>

\* update fails at a `?`: it returns the error, the widget is not touched
Fail ==
    /\ result' = "err"
    /\ pc' = "ret"

\* get_updates_list and the choice of the counting function
GetUpdatesList ==
    /\ pc = "list"
    /\ \/ /\ Fail
          /\ UNCHANGED <<updates_list, idx, kept, count>>
       \/ \E l \in Listings :
            /\ updates_list' = l
            /\ IF cfg.ignore_waiting_phased_updates
               THEN /\ pc' = "phased"
                    /\ idx' = 1
                    /\ kept' = 0
                    /\ UNCHANGED count
               ELSE /\ pc' = "finish"
                    /\ count' = get_update_count(l)
                    /\ UNCHANGED <<idx, kept>>
            /\ UNCHANGED result
    /\ UNCHANGED <<cfg, output, caller, click, selected, saved, cycles,
                   btnVars>>

\* get_update_count_ignore_waiting_phased: the next `[upgradable` line goes
\* through is_waiting_phased_update; after the last one the Vec is counted
PhasedLookup ==
    /\ pc = "phased"
    /\ LET todo == {i \in DOMAIN updates_list :
                        i >= idx /\ updates_list[i].upgradable}
       IN  IF todo = {}
           THEN /\ count' = kept
                /\ pc' = "finish"
                /\ UNCHANGED <<idx, kept, result>>
           ELSE LET i == CHOOSE j \in todo : \A k \in todo : j <= k
                IN  \E cmd_ok \in BOOLEAN :
                      LET r == is_waiting_phased_update(updates_list[i], cmd_ok)
                      IN  IF r.err
                          THEN /\ Fail
                               /\ UNCHANGED <<idx, kept, count>>
                          ELSE /\ kept' = IF filter_map_keeps(r)
                                          THEN kept + 1 ELSE kept
                               /\ idx' = i + 1
                               /\ UNCHANGED <<pc, count, result>>
    /\ UNCHANGED <<cfg, output, caller, click, updates_list, selected, saved,
                   cycles, btnVars>>

\* faulty variant: set_state runs before the template is rendered
FinishStateFirst ==
    /\ pc = "finish"
    /\ LET warning == /\ cfg.warning_updates_regex # None
                      /\ has_warning_update(updates_list,
                                            cfg.warning_updates_regex[1])
           critical == /\ cfg.critical_updates_regex # None
                       /\ has_critical_update(updates_list,
                                              cfg.critical_updates_regex[1])
           which == select_format(count)
           texts == Render(cfg.formats[which], FormattingMap(count))
           stated == TextSetState(output,
                                  select_state(count, warning, critical))
       IN  /\ selected' = which
           /\ IF texts.ok
              THEN /\ output' = TextSetTexts(stated, texts.text)
                   /\ result' = "ok"
              ELSE /\ output' = stated
                   /\ result' = "err"
    /\ pc' = "ret"
    /\ UNCHANGED <<cfg, caller, click, updates_list, idx, kept, count, saved,
                   cycles, btnVars>>

\* the rest of update: warning, critical, render?, set_texts, set_state
Finish ==
    /\ pc = "finish"
    /\ LET warning == /\ cfg.warning_updates_regex # None
                      /\ has_warning_update(updates_list,
                                            cfg.warning_updates_regex[1])
           critical == /\ cfg.critical_updates_regex # None
                       /\ has_critical_update(updates_list,
                                              cfg.critical_updates_regex[1])
           which == select_format(count)
           texts == Render(cfg.formats[which], FormattingMap(count))
       IN  /\ selected' = which
           /\ IF texts.ok
              THEN /\ output' = TextSetState(
                                    TextSetTexts(output, texts.text),
                                    select_state(count, warning, critical))
                   /\ result' = "ok"
              ELSE /\ output' = output
                   /\ result' = "err"
    /\ pc' = "ret"
    /\ UNCHANGED <<cfg, caller, click, updates_list, idx, kept, count, saved,
                   cycles, btnVars>>

(***************************************************************************)
(* Specifications                                                          *)
(***************************************************************************)
ButtonInit(ids) ==
    /\ new_id \in ids
    /\ button = New(new_id)
    /\ mutated = FALSE
    /\ rendered_out = None

\* Apt::new: the output widget is TextWidget::new(id, 0, ..).with_icon("update")
AptInit(configs) ==
    /\ cfg \in configs
    /\ output = TextWithIcon(TextNew(0), "update")
    /\ pc = "idle"
    /\ caller = "none"
    /\ click = None
    /\ updates_list = << >>
    /\ idx = 1
    /\ kept = 0
    /\ count = 0
    /\ selected = "none"
    /\ result = "none"
    /\ saved = output
    /\ cycles = 0

\* the Apt block, under every configuration
Init == ButtonInit({0}) /\ AptInit(Configs)

Next ==
    \/ ScheduledUpdate
    \/ SchedReturn
    \/ ClickEnter
    \/ ClickDispatch
    \/ ClickReturn
    \/ GetUpdatesList
    \/ PhasedLookup
    \/ Finish

Spec == Init /\ [][Next]_vars

\* a ButtonWidget under every sequence of its operations
InitButton == ButtonInit(Ids) /\ AptInit({DefaultConfig})

NextButton ==
    \/ WithIcon
    \/ WithContent
    \/ WithText
    \/ WithState
    \/ WithSpacing
    \/ SetText
    \/ SetIcon
    \/ SetState
    \/ SetSpacing
    \/ ToString

SpecButton == InitButton /\ [][NextButton]_vars

(***************************************************************************)
(* Properties of the Apt block (checked under Spec)                        *)
(***************************************************************************)
Upgradable(updates) == {i \in DOMAIN updates : updates[i].upgradable}

\* the phased lookup of the line reports a percentage other than 100
WaitingPhased(line) == line.phased # None /\ line.phased[1] # 100

UpdateSucceeded == pc = "ret" /\ result = "ok"
UpdateFailed == pc = "ret" /\ result = "err"

CriticalMatches ==
    /\ cfg.critical_updates_regex # None
    /\ \E i \in DOMAIN updates_list :
          cfg.critical_updates_regex[1] \in updates_list[i].words

WarningMatches ==
    /\ cfg.warning_updates_regex # None
    /\ \E i \in DOMAIN updates_list :
          cfg.warning_updates_regex[1] \in updates_list[i].words

\* C1: once the count of an update cycle is computed, it is the number of
\* `[upgradable` lines that are not phased updates below 100% when
\* ignore_waiting_phased_updates is set, and the number of all `[upgradable`
\* lines when it is not.
C1_CountExcludesWaitingPhased ==
    pc = "finish" =>
        count = IF cfg.ignore_waiting_phased_updates
                THEN Cardinality({i \in Upgradable(updates_list) :
                                      ~WaitingPhased(updates_list[i])})
                ELSE Cardinality(Upgradable(updates_list))

\* C2: after a successful update cycle with count n, the template rendered
\* into the widget's text is format_up_to_date iff n = 0, format_singular iff
\* n = 1 and format iff n >= 2; one of the three is always selected.
C2_AritySelection ==
    UpdateSucceeded =>
        /\ selected \in {"format_up_to_date", "format_singular", "format"}
        /\ (selected = "format_up_to_date") <=> (count = 0)
        /\ (selected = "format_singular") <=> (count = 1)
        /\ (selected = "format") <=> (count >= 2)
        /\ LET expected == IF count = 0 THEN cfg.formats.format_up_to_date
                           ELSE IF count = 1 THEN cfg.formats.format_singular
                           ELSE cfg.formats.format
           IN  output.content = Some(Render(expected, FormattingMap(count)).text)

C2_Witness ==
    /\ UpdateSucceeded
    /\ count = 2
    /\ cfg.formats.format = TplMany
    /\ output.content = Some(<<" ", "2", " ", "u", "s">>)

\* C3 as stated: whenever the critical pattern matches a line of the listing,
\* the State after a successful update cycle is Critical.
C3_CriticalWheneverMatched ==
    (UpdateSucceeded /\ CriticalMatches) => output.state = "Critical"

\* C3 amended: whenever the critical pattern matches a line of the listing
\* and the computed update count is not 0, the State after a successful
\* update cycle is Critical, whether or not the warning pattern matches.
C3_CriticalWhenCounted ==
    (UpdateSucceeded /\ CriticalMatches /\ count # 0) =>
        output.state = "Critical"

C3_Witness ==
    /\ UpdateSucceeded
    /\ CriticalMatches
    /\ WarningMatches
    /\ count # 0
    /\ \E i, j \in DOMAIN updates_list :
          /\ i # j
          /\ "security" \in updates_list[i].words
          /\ "linux" \in updates_list[j].words
          /\ "security" \notin updates_list[j].words

\* C6: when an update cycle fails, it returns the error and the output
\* widget (text, State, cached fragment) is what it was when update was
\* entered.
C6_FailedUpdateLeavesWidget ==
    UpdateFailed => output = saved

\* a template that fails to render, after an earlier cycle set a text
C6_Witness ==
    /\ UpdateFailed
    /\ selected # "none"
    /\ output.content # None
    /\ output.state # "Idle"

\* C9 as stated: while an update triggered by a click waits for its external
\* commands, the click handler has already returned.
C9_ClickDoesNotWait ==
    (caller = "click" /\ pc \in {"list", "phased"}) => ~Pending

\* C9 amended: an update cycle triggered by a click runs inside the click
\* handler, on the thread that called it: from its entry until it has
\* returned the handler of that Left click has not returned.
C9_UpdateInsideHandler ==
    caller = "click" =>
        /\ Pending
        /\ click[1].button = "Left"
        /\ pc # "idle"

C9_Witness == caller = "click" /\ pc = "phased" /\ Pending

\* C10: a click with another button than Left returns Ok and changes nothing
\* of the block; a Left click returns after exactly one update cycle, with an
\* error iff that cycle failed.
C10_ClickFrame ==
    [][/\ (Pending /\ click[1].button # "Left") =>
            /\ click'[1] = [button |-> click[1].button, ret |-> "ok"]
            /\ UNCHANGED <<cfg, output, pc, caller, updates_list, idx, kept,
                           count, selected, result, saved, cycles>>
       /\ (Pending /\ click[1].button = "Left" /\ ~Pending') =>
            /\ cycles = 1
            /\ pc = "ret" /\ result \in {"ok", "err"}
            /\ click'[1].ret \in {"ok", "err"}
            /\ (click'[1].ret = "err") <=> (result = "err")
            /\ UNCHANGED <<cfg, output>>
       /\ (Pending /\ click[1].button = "Left" /\ cycles' # cycles) =>
            /\ cycles = 0 /\ cycles' = 1 /\ pc' = "list"]_vars

C10_Witness ==
    /\ click # None
    /\ click[1] = [button |-> "Left", ret |-> "err"]
    /\ pc = "idle"

(***************************************************************************)
(* Properties of ButtonWidget (checked under SpecButton)                   *)
(***************************************************************************)
Lead(w) ==
    IF w.icon # None THEN w.icon[1]
    ELSE IF w.spacing = "Normal" THEN <<" ">>
    ELSE IF w.spacing \in {"Inline", "Hidden"} THEN << >>
    ELSE <<"?">>

Trail(w) == IF w.spacing = "Hidden" THEN << >> ELSE <<" ">>

Text(w) == IF w.content = None THEN << >> ELSE w.content[1]

\* the wire record of the current field values, as the claims describe it
RecordOf(w) ==
    [full_text             |-> Lead(w) \o Text(w) \o Trail(w),
     name                  |-> w.id,
     background            |-> ThemeKeys(w.state).bg,
     color                 |-> ThemeKeys(w.state).fg,
     separator             |-> FALSE,
     separator_block_width |-> 0,
     markup                |-> "pango"]

HasName(text, id) ==
    \E i \in DOMAIN text : text[i][1] = "name" /\ text[i][2] = id

\* C4: after at least one mutating operation, cached_output is the
\* serialization of the record computed from the current id, icon, content,
\* state and spacing and the theme colors of the current State.
C4_CacheIsCurrent ==
    mutated =>
        /\ button.rendered = RecordOf(button)
        /\ button.cached_output = Some(Serialize(RecordOf(button)))

C4_Witness ==
    /\ mutated
    /\ button.state = "Warning"
    /\ button.spacing = "Inline"
    /\ button.icon # None
    /\ button.content = Some(<<"a", "b">>)

\* C5 as stated: in every reachable state, also right after new, the record
\* get_rendered and to_string expose has a name equal to the id given to new.
C5_NameAlways ==
    /\ "name" \in DOMAIN get_rendered(button)
    /\ get_rendered(button).name = new_id
    /\ HasName(to_string(button).text, new_id)

\* C5 amended: after at least one with_* or set_* operation, the record
\* get_rendered and to_string expose has a name equal to the id given to new
\* (right after new the record has no name).
C5_NameOnceMutated ==
    /\ button.id = new_id
    /\ mutated =>
        /\ "name" \in DOMAIN get_rendered(button)
        /\ get_rendered(button).name = new_id
        /\ HasName(to_string(button).text, new_id)

C5_Witness ==
    /\ mutated
    /\ new_id = 1
    /\ rendered_out # None
    /\ HasName(rendered_out[1].text, 1)

\* C7: after a mutating operation full_text is lead, content, trail: lead is
\* the icon if set, else one space under Normal spacing and nothing under
\* Inline or Hidden; trail is one space unless spacing is Hidden.
C7_FullText ==
    mutated => button.rendered.full_text = Lead(button) \o Text(button) \o Trail(button)

C7_Witness ==
    /\ mutated
    /\ button.icon = None
    /\ button.spacing = "Inline"
    /\ button.content = Some(<<"a">>)
    /\ button.rendered.full_text = <<"a", " ">>

\* C8 as stated: every to_string call, also on a widget that was never
\* mutated, returns the stored cache without serializing, and changes no
\* field.
C8_NeverRecomputes ==
    [][rendered_out' # None =>
          /\ button' = button
          /\ ~rendered_out'[1].fallback
          /\ button.cached_output = Some(rendered_out'[1].text)]_vars

\* C8 amended: a to_string call on a widget that has been mutated at least
\* once returns the stored cache without serializing; every to_string call
\* changes no field (on a never-mutated widget it serializes the record).
C8_CachedOnceMutated ==
    [][rendered_out' # None =>
          /\ button' = button
          /\ mutated =>
                /\ ~rendered_out'[1].fallback
                /\ button.cached_output = Some(rendered_out'[1].text)
          /\ ~mutated => rendered_out'[1].fallback]_vars

C8_Witness ==
    /\ mutated
    /\ rendered_out # None
    /\ ~rendered_out[1].fallback
    /\ button.cached_output = Some(rendered_out[1].text)
    /\ button.state = "Critical"

=============================================================================
